---- MODULE Spec2Model ----
(***************************************************************************)
(* A model of jsonDB (AlexiaAshford/jsonDB): the in-memory document store, *)
(* its WAL and data file, the single-field index and the mutation          *)
(* protocol of Insert, Update and Delete as goroutines interleave them.    *)
(*                                                                         *)
(* Each goroutine that calls the database is a thread with a program       *)
(* counter; each action is one step of a handler between two points where  *)
(* other goroutines can observe or change shared state.                    *)
(***************************************************************************)
EXTENDS Integers, Sequences, FiniteSets, TLC

\* ------------------------------------------------------------- bounds
NumThreads == 2      \* goroutines calling the database
MaxId == 2           \* distinct primary-key texts "1".."MaxId"
MaxVal == 2          \* distinct magnitudes of a field value
MaxCalls == 3        \* calls issued over a run
MaxWorkers == 1      \* largest worker count given to NewDatabase
MaxGen == 1          \* restarts (NewDatabase on the same directory)
MaxWordLen == 2      \* longest name, pattern and query value, in characters
MaxTagLen == 1       \* longest tag, in characters
MaxTextCalls == 4    \* calls issued on the database of string-valued documents

Threads == 1..NumThreads
Ids == 1..MaxId

\* ------------------------------------------------------------- values
\* A Go interface{} value is <<dynamic type, magnitude>>.  A "str" value n is
\* the decimal string of n, so that fmt.Sprintf("%v") of int 1, float64 1
\* and "1" all give the text "1".  A "half" value n is the float64 n + 0.5.
Tags == {"int", "int64", "float", "half", "str"}
Values == Tags \X (1..MaxVal)
Absent == <<"none", 0>>          \* the field is not in the map
NaN == <<"nan", 0>>

Fields == {"id", "age"}
primaryKey == "id"
indexField == "age"

\* utils.go toFloat64: int, int64, float32, float64 -> float64; else NaN.
toFloat64(v) ==
    IF v[1] \in {"int", "int64", "float"} THEN <<"float", v[2]>>
    ELSE IF v[1] = "half" THEN v
    ELSE NaN

\* Go's == on float64: NaN equals nothing, itself included.
FloatEq(a, b) == a # NaN /\ b # NaN /\ a = b

\* fmt.Sprintf("%v", v): the text of a value (the decimal digits).
Text(v) == v[2]

EmptyDoc == [f \in Fields |-> Absent]
NoEntry == [ref |-> 0, d |-> EmptyDoc]

\* A document with the two modelled fields.
NewDoc(idv, agev) == [id |-> idv, age |-> agev]

\* ------------------------------------------------------------- inputs
\* Documents handed to Insert: a string primary key and an integer age, the
\* shape of the repository's tests and demo; one document has no primary key.
AgeInputs == {<<"int", n>> : n \in 1..MaxVal}
InsertDocs ==
    {NewDoc(<<"str", i>>, a) : i \in Ids, a \in AgeInputs}
        \cup {NewDoc(Absent, <<"int", 1>>)}
\* Patches handed to Update: a new value for the indexed field.
Patches == {NewDoc(Absent, a) : a \in AgeInputs}

\* ------------------------------------------------------------- state
VARIABLES
    phase,       \* "open": files open; "closed": after Close; "down": process stopped
    gen,         \* how many times the directory has been reopened
    numWorkers,  \* capacity of db.workerPool
    data,        \* db.data: id -> *Document (ref is the pointer, d its data)
    nextRef,     \* the next pointer the allocator hands out
    idx,         \* db.indexes[indexField]: registered? and its value buckets
    docCount,    \* db.docCount
    wal,         \* records of wal.log, in file order
    dataFile,    \* records of data.db, in file order
    wg,          \* db.writeWg counter
    slots,       \* tokens in db.workerPool
    muHeld,      \* holder of db.mu across steps (0: free)
    pc,          \* each thread's position in its handler
    loc,         \* each thread's local variables
    res,         \* each thread's last return value
    writers,     \* goroutines started by `go func` that have not finished
    calls,       \* calls issued so far
    hist,        \* returned calls of this generation, in return order
    base,        \* docCount and store when the directory was last opened
    snap,        \* store views recorded at acknowledgements, Close and Open
    ioFails,     \* whether a write to an open WAL file may fail
    textData,    \* db.data of a database of string-valued documents
    textIndexes, \* the keys registered in its db.indexes
    trie,        \* index.trie of its index on name
    composite,   \* index.values of its composite index on (name, tag)
    trieLog,     \* the Insert and Remove calls made on a Trie, in call order
    fileBytes,   \* the bytes of a data.db, in file order
    loadRes      \* what loadData returned for those bytes

vars == <<phase, gen, numWorkers, data, nextRef, idx, docCount, wal, dataFile,
          wg, slots, muHeld, pc, loc, res, writers, calls, hist, base, snap,
          ioFails, textData, textIndexes, trie, composite, trieLog,
          fileBytes, loadRes>>

textVars == <<textData, textIndexes, trie, composite>>
\* The state of the checks of Trie and of loadData on their own.
unitVars == <<trieLog, fileBytes, loadRes>>

\* ------------------------------------------------------------- index
Keys == Values \cup {Absent}
NoIndex == [exists |-> FALSE, values |-> [k \in Keys |-> {}]]
EmptyIndex == [exists |-> TRUE, values |-> [k \in Keys |-> {}]]

\* indexs.go indexDocument: the key a field value is filed under.
IndexKey(v) ==
    IF v[1] \in {"int", "int64", "float", "half"} THEN toFloat64(v) ELSE v

\* indexs.go indexDocument: add id to the bucket of the coerced value.
indexDocument(ix, d, id) ==
    IF d[indexField] # Absent
    THEN [ix EXCEPT !.values[IndexKey(d[indexField])] = @ \cup {id}]
    ELSE ix

\* indexs.go updateIndex: keyed by the raw old and new values.
updateIndex(ix, id, old, new) ==
    LET oldValue == old[indexField]
        newValue == new[indexField]
    IN IF oldValue # newValue
       THEN [ix EXCEPT !.values =
                [k \in Keys |->
                    IF k = newValue THEN (ix.values[k] \ (IF k = oldValue THEN {id} ELSE {})) \cup {id}
                    ELSE IF k = oldValue THEN ix.values[k] \ {id}
                    ELSE ix.values[k]]]
       ELSE ix

\* indexs.go removeFromIndex: keyed by the raw field value.
removeFromIndex(ix, id, d) ==
    IF d[indexField] # Absent
    THEN [ix EXCEPT !.values[d[indexField]] = @ \ {id}]
    ELSE ix

\* ------------------------------------------------------------- store
Stored(id) == data[id] # NoEntry
StoreIds == {id \in Ids : Stored(id)}
\* What Get(id) returns for every id: the document, or EmptyDoc when absent.
StoreView == [id \in Ids |-> data[id].d]
EmptyView == [id \in Ids |-> EmptyDoc]

\* An Update that stores the patch alone: C15 fails for it.
MergeReplaces(old, patch) == patch

\* document.go Update: the old mapping overlaid by the patch's fields.
Merge(old, patch) ==
    [f \in Fields |-> IF patch[f] # Absent THEN patch[f] ELSE old[f]]

\* write.go loadData: Store every record in file order (the last one wins) and
\* add one to docCount per record.
RECURSIVE loadData(_, _)
loadData(file, acc) ==
    IF file = <<>> THEN acc
    ELSE loadData(Tail(file),
            [store |-> [acc.store EXCEPT ![Head(file).id] = Head(file).d],
             count |-> acc.count + 1])

\* write.go recoverFromWAL: INSERT and UPDATE store, DELETE removes.
RECURSIVE recoverFromWAL(_, _)
recoverFromWAL(log, store) ==
    IF log = <<>> THEN store
    ELSE recoverFromWAL(Tail(log),
            IF Head(log).op = "DELETE"
            THEN [store EXCEPT ![Head(log).id] = EmptyDoc]
            ELSE [store EXCEPT ![Head(log).id] = Head(log).d])

\* A WAL that logs the id without the document: C23 (amended) fails for it.
WalRecordNoDoc(op, id, d) == [op |-> op, id |-> id, d |-> EmptyDoc]

\* A WAL that logs every mutation as an INSERT: C30 fails for it.
WalRecordAsInsert(op, id, d) == [op |-> "INSERT", id |-> id, d |-> d]

\* write.go writeWAL, writeToDataFile: the record appended for a mutation.
\* msgpack carries the id and the mapping; a DELETE carries a nil mapping.
WalRecord(op, id, d) == [op |-> op, id |-> id, d |-> d]
DataRecord(id, d) == [id |-> id, d |-> d]

\* ------------------------------------------------------------- text
\* String-valued fields, the trie of a single-field index and the buckets of
\* a composite index.  A string is a sequence of characters.
Chars == {"a", "A", "-"}

RECURSIVE WordsOver(_, _)
WordsOver(cs, n) ==
    IF n = 0 THEN {<<>>}
    ELSE LET shorter == WordsOver(cs, n - 1)
         IN  shorter \cup {Append(w, c) : w \in shorter, c \in cs}

\* Names and patterns of the fuzzy queries; field and query values of the
\* composite queries, where the letter case plays no part.
NameValues == WordsOver(Chars, MaxWordLen)
Patterns == WordsOver(Chars \cup {"*"}, MaxWordLen)
TagValues == WordsOver(Chars \ {"A"}, MaxTagLen)
QueryValues == WordsOver(Chars \ {"A"}, MaxWordLen)

nameField == "name"
tagField == "tag"
compositeFields == <<nameField, tagField>>
\* indexs.go:101 strings.Join(fields, "-"), the key of the composite index
\* in db.indexes.
indexKey == "name-tag"

\* A field of a text document: has is the `ok` of doc.data[field].
Missing == [has |-> FALSE, s |-> <<>>]
Str(w) == [has |-> TRUE, s |-> w]
NameInputs == {Str(w) : w \in NameValues} \cup {Missing}
TagInputs == {Str(w) : w \in TagValues} \cup {Missing}
NoTextDoc == [stored |-> FALSE, name |-> Missing, tag |-> Missing]

\* strings.ToLower on the alphabet.
ToLower(w) == [i \in 1..Len(w) |-> IF w[i] = "A" THEN "a" ELSE w[i]]

\* fmt.Sprintf("%v", v): a string prints as itself, a nil interface (the
\* value read from a map that lacks the key) prints as "<nil>".
Sprintf(f) == IF f.has THEN f.s ELSE <<"<", "n", "i", "l", ">">>

\* strings.Join(parts, "-") for the two fields of the composite index.
Join(a, b) == a \o <<"-">> \o b

\* trie.go:25-44 the nodes a trie over lowercased values can hold, named by
\* the path from the root; present: the node is linked from its parent.
TrieNodes == WordsOver({ToLower(<<c>>)[1] : c \in Chars}, MaxWordLen)
NewTrie ==
    [n \in TrieNodes |-> [present |-> n = <<>>, docs |-> {}]]

HasNode(t, n) == n \in TrieNodes /\ t[n].present
Children(t, n) ==
    {c \in TrieNodes : Len(c) = Len(n) + 1 /\ SubSeq(c, 1, Len(n)) = n
                       /\ t[c].present}

\* trie.go:49-65 Trie.Insert: every node below the root on the word's path is
\* created if needed and gets the id.
TrieInsert(t, word, id) ==
    [n \in TrieNodes |->
        IF n # <<>> /\ Len(n) <= Len(word) /\ SubSeq(word, 1, Len(n)) = n
        THEN [present |-> TRUE, docs |-> t[n].docs \cup {id}]
        ELSE t[n]]

\* trie.go:131-143 the pruning loop of Trie.Remove from the node at depth k.
RECURSIVE TriePrune(_, _, _)
TriePrune(t, word, k) ==
    IF k = 0 THEN t
    ELSE LET node == SubSeq(word, 1, k)
         IN  IF Children(t, node) = {} /\ t[node].docs = {}
             THEN TriePrune([t EXCEPT ![node].present = FALSE], word, k - 1)
             ELSE t

\* A Remove that leaves the id sets alone: C34 (amended) fails for it.
TrieRemoveNothing(t, word, id) == t

\* trie.go:112-144 Trie.Remove: nothing if the path is not in the trie;
\* otherwise the id leaves the last node only, then empty leaves are pruned.
TrieRemove(t, word, id) ==
    IF \E k \in 1..Len(word) : ~HasNode(t, SubSeq(word, 1, k)) THEN t
    ELSE TriePrune([t EXCEPT ![word].docs = @ \ {id}], word, Len(word))

\* complexquery.go:83-108 fuzzySearchRecursive: the ids collected from node
\* for the rest of the pattern.
RECURSIVE fuzzySearchRecursive(_, _, _)
fuzzySearchRecursive(t, node, pattern) ==
    IF pattern = <<>> THEN t[node].docs
    ELSE IF Head(pattern) = "*"
    THEN fuzzySearchRecursive(t, node, Tail(pattern))
         \cup UNION {fuzzySearchRecursive(t, c, pattern) :
                        c \in Children(t, node)}
    ELSE LET child == Append(node, Head(pattern))
         IN  IF HasNode(t, child)
             THEN fuzzySearchRecursive(t, child, Tail(pattern))
             ELSE {}

\* complexquery.go:76-80
FuzzySearch(t, pattern) == fuzzySearchRecursive(t, <<>>, pattern)

\* complexquery.go:70-73 wildcardToRegexp and MatchString: the text matches
\* the pattern as a whole, '*' standing for any sequence.
RECURSIVE wildcardToRegexp(_, _)
wildcardToRegexp(pattern, text) ==
    IF pattern = <<>> THEN text = <<>>
    ELSE IF Head(pattern) = "*"
    THEN \/ wildcardToRegexp(Tail(pattern), text)
         \/ text # <<>> /\ wildcardToRegexp(pattern, Tail(text))
    ELSE /\ text # <<>>
         /\ Head(text) = Head(pattern)
         /\ wildcardToRegexp(Tail(pattern), Tail(text))

\* indexs.go:155-194 indexDocument, the trie part: a document that has the
\* field files its id under the lowercased text of the value.
indexDocumentTrie(t, id, doc) ==
    IF doc.name.has THEN TrieInsert(t, ToLower(Sprintf(doc.name)), id) ELSE t

\* indexs.go:236-264 updateIndex, the trie part.
updateIndexTrie(t, id, old, new) ==
    IF old.name # new.name
    THEN TrieInsert(TrieRemove(t, ToLower(Sprintf(old.name)), id),
                    ToLower(Sprintf(new.name)), id)
    ELSE t

\* indexs.go:294-308 removeFromIndex, the trie part.
removeFromIndexTrie(t, id, doc) ==
    IF doc.name.has THEN TrieRemove(t, ToLower(Sprintf(doc.name)), id) ELSE t

\* indexs.go:203-210 and 314-321: the key of a document in the composite
\* index, a missing field giving the empty string.
compositeKey(doc) ==
    Join(IF doc.name.has THEN Sprintf(doc.name) ELSE <<>>,
         IF doc.tag.has THEN Sprintf(doc.tag) ELSE <<>>)

\* indexs.go:270-275 the keys updateCompositeIndex computes: every field
\* goes through Sprintf, a missing one too.
updateKey(doc) == Join(Sprintf(doc.name), Sprintf(doc.tag))

\* indexs.go:197-218; the buckets are a set of <<key, id>> pairs.
indexDocumentComposite(c, id, doc) == c \cup {<<compositeKey(doc), id>>}

\* indexs.go:267-291
updateCompositeIndex(c, id, old, new) ==
    IF updateKey(old) # updateKey(new)
    THEN (c \ {<<updateKey(old), id>>}) \cup {<<updateKey(new), id>>}
    ELSE c

\* indexs.go:311-330
removeFromCompositeIndex(c, id, doc) == c \ {<<compositeKey(doc), id>>}

\* ------------------------------------------------------------- data file bytes
\* write.go:110 binary.Write(uint32): the length header has four bytes.
HeaderLen == 4
\* The length of the msgpack body of a record.
BodyLen == 2
RecordLen == HeaderLen + BodyLen
\* The records a data file holds at most.
MaxFileRecords == 2

NoRecord == DataRecord(0, EmptyDoc)
\* loadData has not run; it returned nil with a store; it returned an error.
NotLoaded == [state |-> "none", store |-> EmptyView, count |-> 0]

\* write.go:110-118 writeToDataFile: the little-endian uint32 length of the
\* body, then the body, whose bytes belong to the record they encode.
Encode(rec) ==
    [i \in 1..RecordLen |->
        IF i <= HeaderLen
        THEN [k |-> "size", n |-> IF i = 1 THEN BodyLen ELSE 0, rec |-> NoRecord]
        ELSE [k |-> "body", n |-> i - HeaderLen, rec |-> rec]]

\* binary.LittleEndian.Uint32 of four header bytes.
LittleEndian(b) == b[1].n + 256 * b[2].n + 65536 * b[3].n + 16777216 * b[4].n

\* msgpack.Unmarshal succeeds on the whole body of one record.
Decodes(body) ==
    /\ body # <<>>
    /\ \A i \in 1..Len(body) :
          body[i].k = "body" /\ body[i].n = i /\ body[i].rec = body[1].rec
    /\ Len(body) = BodyLen

\* write.go:140-147 binary.Read of the header: io.EOF, the clean end, only if
\* no byte was read; a header cut short gives io.ErrUnexpectedEOF.
HeaderIsEOF(n) == n = 0

\* write.go:126-189 loadData on the bytes of the file.
RECURSIVE loadBytes(_, _)
loadBytes(bytes, acc) ==
    IF HeaderIsEOF(Len(bytes)) THEN [acc EXCEPT !.state = "ok"]
    ELSE IF Len(bytes) < HeaderLen THEN [acc EXCEPT !.state = "error"]
    ELSE LET size == LittleEndian(SubSeq(bytes, 1, HeaderLen))
             rest == SubSeq(bytes, HeaderLen + 1, Len(bytes))
         IN  IF Len(rest) < size \/ ~Decodes(SubSeq(rest, 1, size))
             THEN [acc EXCEPT !.state = "error"]
             ELSE loadBytes(SubSeq(rest, size + 1, Len(rest)),
                            [acc EXCEPT !.store[rest[1].rec.id] = rest[1].rec.d,
                                        !.count = @ + 1])

\* ------------------------------------------------------------- threads
LocInit == [op |-> "none", id |-> 0, arg |-> EmptyDoc, old |-> NoEntry,
            new |-> NoEntry, todo |-> {}, key |-> 0, h0 |-> 0, cn |-> 0]

\* The positions at which a thread holds oldDoc.mu (Update) or doc.mu (Delete).
DocLockPcs == {"upd_cas", "upd_wal", "upd_index", "upd_ret",
               "del_wal", "del_index", "del_ret"}
DocLocked(ref) == \E t \in Threads : pc[t] \in DocLockPcs /\ loc[t].old.ref = ref

\* No call is in progress.
Quiescent == \A t \in Threads : pc[t] = "idle"

\* The files accept writes only between NewDatabase and Close.
FilesOpen == phase = "open"

\* part_001:28-70 NewDatabase on an empty directory.
InitState ==
    /\ phase = "open"
    /\ gen = 0
    /\ numWorkers \in 0..MaxWorkers
    /\ data = [id \in Ids |-> NoEntry]
    /\ nextRef = 1
    /\ idx = NoIndex
    /\ docCount = 0
    /\ wal = <<>>
    /\ dataFile = <<>>
    /\ wg = 0
    /\ slots = 0
    /\ muHeld = 0
    /\ pc = [t \in Threads |-> "idle"]
    /\ loc = [t \in Threads |-> LocInit]
    /\ res = [t \in Threads |-> "none"]
    /\ writers = {}
    /\ calls = 0
    /\ hist = <<>>
    /\ base = [count |-> 0, ids |-> {}]
    /\ snap = [acked |-> EmptyView, closed |-> EmptyView, clean |-> FALSE,
               stopAcked |-> EmptyView, stopClosed |-> EmptyView,
               loaded |-> EmptyView]
    /\ textData = [id \in Ids |-> NoTextDoc]
    /\ textIndexes = {}
    /\ trie = NewTrie
    /\ composite = {}
    /\ trieLog = <<>>
    /\ fileBytes = <<>>
    /\ loadRes = NotLoaded

\* The environment never fails a write to an open file.
Init == InitState /\ ioFails = FALSE

\* The environment may fail any WAL append (a full disk, an I/O error).
InitFault == InitState /\ ioFails = TRUE

\* A call returns: the thread is idle again and the call joins the history.
\* rem: the call removed an entry from the store (Delete only); arg: the patch
\* of an Update that succeeded.
Return(t, r, rem) ==
    /\ pc' = [pc EXCEPT ![t] = "idle"]
    /\ res' = [res EXCEPT ![t] = r]
    /\ loc' = [loc EXCEPT ![t] = LocInit]
    /\ hist' = Append(hist, [op |-> loc[t].op, id |-> loc[t].id, res |-> r,
                             rem |-> rem, h0 |-> loc[t].h0,
                             arg |-> IF loc[t].op = "update" /\ r = "ok"
                                     THEN loc[t].arg ELSE EmptyDoc])

Goto(t, p) == pc' = [pc EXCEPT ![t] = p]

CanCall(t) == pc[t] = "idle" /\ calls < MaxCalls /\ phase \in {"open", "closed"}

Begin(t, op, id, arg, p) ==
    /\ calls' = calls + 1
    /\ loc' = [loc EXCEPT ![t] = [LocInit EXCEPT !.op = op, !.id = id,
                                     !.arg = arg, !.h0 = Len(hist),
                                     !.cn = calls + 1]]
    /\ Goto(t, p)

lifeVars == <<phase, gen, numWorkers, ioFails>>
fileVars == <<wal, dataFile>>
poolVars == <<wg, slots>>
ghostVars == <<base, snap>>

\* write.go writeWAL: whether the append succeeds.  A write to a closed file
\* fails; a write to an open file fails only if the environment lets it.
WalOutcomes ==
    IF ~FilesOpen THEN {FALSE} ELSE IF ioFails THEN {TRUE, FALSE} ELSE {TRUE}

\* The store view after the mutation a thread acknowledges.
Acked == [snap EXCEPT !.acked = StoreView]

\* ------------------------------------------------------------- Insert
\* document.go:66-76: the primary key must be present; its text is the id.
CallInsert(t, doc) ==
    /\ CanCall(t)
    /\ IF doc[primaryKey] = Absent
       THEN /\ calls' = calls + 1
            /\ res' = [res EXCEPT ![t] = "nopk"]
            /\ hist' = Append(hist, [op |-> "insert", id |-> 0, res |-> "nopk",
                                     rem |-> FALSE, h0 |-> Len(hist),
                                     arg |-> EmptyDoc])
            /\ UNCHANGED <<pc, loc>>
       ELSE /\ Begin(t, "insert", Text(doc[primaryKey]), doc, "ins_check")
            /\ UNCHANGED <<res, hist>>
    /\ UNCHANGED <<textVars, unitVars, lifeVars, data, nextRef, idx, docCount, fileVars, poolVars,
                   muHeld, writers, ghostVars>>

\* An Insert that skips the lookup of the id: C7 fails for it.
InsertExistsSkipped(id) == FALSE

\* document.go:79: `_, exists := db.Get(idStr)`.
InsertExists(id) == Stored(id)

\* document.go:78-83: Get loads the entry; a found entry is read under its
\* read lock, which waits for a writer that holds the document.
InsCheck(t) ==
    /\ pc[t] = "ins_check"
    /\ IF InsertExists(loc[t].id)
       THEN IF DocLocked(data[loc[t].id].ref)
            THEN /\ loc' = [loc EXCEPT ![t].old = data[loc[t].id]]
                 /\ Goto(t, "ins_rlock")
                 /\ UNCHANGED <<res, hist>>
            ELSE Return(t, "dup", FALSE)
       ELSE /\ Goto(t, "ins_wal")
            /\ UNCHANGED <<loc, res, hist>>
    /\ UNCHANGED <<textVars, unitVars, lifeVars, data, nextRef, idx, docCount, fileVars, poolVars,
                   muHeld, writers, calls, ghostVars>>

InsRLock(t) ==
    /\ pc[t] = "ins_rlock"
    /\ ~DocLocked(loc[t].old.ref)
    /\ Return(t, "dup", FALSE)
    /\ UNCHANGED <<textVars, unitVars, lifeVars, data, nextRef, idx, docCount, fileVars, poolVars,
                   muHeld, writers, calls, ghostVars>>

\* An Insert that goes on after a failed WAL append: C18 fails for it.
InsertWalFailedIgnored(ok) == FALSE

\* document.go:90: `if err := db.writeWAL(...); err != nil`.
InsertWalFailed(ok) == ~ok

\* document.go:90-96 and write.go:33-73: append the INSERT record under db.mu;
\* on failure return the error.
InsWal(t) ==
    /\ pc[t] = "ins_wal"
    /\ muHeld = 0
    /\ \E ok \in WalOutcomes :
        /\ wal' = IF ok
                  THEN Append(wal, WalRecord("INSERT", loc[t].id, loc[t].arg))
                  ELSE wal
        /\ IF InsertWalFailed(ok)
           THEN Return(t, "walerr", FALSE)
           ELSE /\ Goto(t, "ins_wg")
                /\ UNCHANGED <<loc, res, hist>>
    /\ UNCHANGED <<textVars, unitVars, lifeVars, data, nextRef, idx, docCount, dataFile, poolVars,
                   muHeld, writers, calls, ghostVars>>

\* document.go:100: db.writeWg.Add(1).
InsWg(t) ==
    /\ pc[t] = "ins_wg"
    /\ wg' = wg + 1
    /\ Goto(t, "ins_sem")
    /\ UNCHANGED <<textVars, unitVars, lifeVars, data, nextRef, idx, docCount, fileVars, slots,
                   muHeld, loc, res, writers, calls, hist, ghostVars>>

\* document.go:101: `db.workerPool <- struct{}{}` blocks while the pool is full.
InsSem(t) ==
    /\ pc[t] = "ins_sem"
    /\ slots < numWorkers
    /\ slots' = slots + 1
    /\ Goto(t, "ins_store")
    /\ UNCHANGED <<textVars, unitVars, lifeVars, data, nextRef, idx, docCount, fileVars, wg,
                   muHeld, loc, res, writers, calls, hist, ghostVars>>

\* document.go:110: db.data.Store(idStr, newDoc).
InsStore(t) ==
    /\ pc[t] = "ins_store"
    /\ LET newDoc == [ref |-> nextRef, d |-> loc[t].arg]
       IN /\ data' = [data EXCEPT ![loc[t].id] = newDoc]
          /\ loc' = [loc EXCEPT ![t].new = newDoc]
    /\ nextRef' = nextRef + 1
    /\ Goto(t, "ins_index")
    /\ UNCHANGED <<textVars, unitVars, lifeVars, idx, docCount, fileVars, poolVars, muHeld, res,
                   writers, calls, hist, ghostVars>>

\* A reader holds the index's read lock while it resolves ids.
IdxRLocked == \E t \in Threads : pc[t] \in {"q_get"}

\* document.go:114-126: walk db.indexes; indexDocument takes the new document's
\* read lock and the index's write lock.
InsIndex(t) ==
    /\ pc[t] = "ins_index"
    /\ IF idx.exists
       THEN /\ ~DocLocked(loc[t].new.ref)
            /\ ~IdxRLocked
            /\ idx' = indexDocument(idx, loc[t].new.d, loc[t].id)
       ELSE UNCHANGED idx
    /\ Goto(t, "ins_count")
    /\ UNCHANGED <<textVars, unitVars, lifeVars, data, nextRef, docCount, fileVars, poolVars,
                   muHeld, loc, res, writers, calls, hist, ghostVars>>

\* An Insert that leaves the counter alone: C4 fails for it.
CountAfterInsertSkipped(c) == c

\* document.go:130: atomic.AddInt64(&db.docCount, 1).
CountAfterInsert(c) == c + 1

InsCount(t) ==
    /\ pc[t] = "ins_count"
    /\ docCount' = CountAfterInsert(docCount)
    /\ Goto(t, "ins_ret")
    /\ UNCHANGED <<textVars, unitVars, lifeVars, data, nextRef, idx, fileVars, poolVars, muHeld,
                   loc, res, writers, calls, hist, ghostVars>>

\* document.go:134-146 and 102-106: start the data-file writer with `go`, then
\* the deferred function gives the slot back and calls writeWg.Done.
InsRet(t) ==
    /\ pc[t] = "ins_ret"
    /\ writers' = writers \cup {[n |-> loc[t].cn, id |-> loc[t].id,
                                 d |-> loc[t].arg, kind |-> "ins",
                                 st |-> "spawned"]}
    /\ slots' = slots - 1
    /\ wg' = wg - 1
    /\ Return(t, "ok", FALSE)
    /\ snap' = Acked
    /\ UNCHANGED <<textVars, unitVars, lifeVars, data, nextRef, idx, docCount, fileVars, muHeld,
                   calls, base>>

\* ------------------------------------------------------------- writers
\* write.go:80-122 writeToDataFile: append the record under db.mu; a write to
\* a closed file returns an error, which the goroutine only logs.
DataFileAfterWrite(file, w) ==
    IF FilesOpen THEN Append(file, DataRecord(w.id, w.d)) ELSE file

\* document.go:134-142: Insert's goroutine writes without taking a worker slot
\* and outside the wait group.
WriterInsert(w) ==
    /\ w \in writers
    /\ w.kind = "ins"
    /\ muHeld = 0
    /\ dataFile' = DataFileAfterWrite(dataFile, w)
    /\ writers' = writers \ {w}
    /\ UNCHANGED <<textVars, unitVars, lifeVars, data, nextRef, idx, docCount, wal, poolVars,
                   muHeld, pc, loc, res, calls, hist, ghostVars>>

\* document.go:219: Update's goroutine first takes a worker slot.
WriterSem(w) ==
    /\ w \in writers
    /\ w.kind = "upd"
    /\ w.st = "spawned"
    /\ slots < numWorkers
    /\ slots' = slots + 1
    /\ writers' = (writers \ {w}) \cup {[w EXCEPT !.st = "slot"]}
    /\ UNCHANGED <<textVars, unitVars, lifeVars, data, nextRef, idx, docCount, fileVars, wg,
                   muHeld, pc, loc, res, calls, hist, ghostVars>>

\* document.go:220-226: write, then give the slot back and call writeWg.Done.
WriterUpdate(w) ==
    /\ w \in writers
    /\ w.kind = "upd"
    /\ w.st = "slot"
    /\ muHeld = 0
    /\ dataFile' = DataFileAfterWrite(dataFile, w)
    /\ writers' = writers \ {w}
    /\ slots' = slots - 1
    /\ wg' = wg - 1
    /\ UNCHANGED <<textVars, unitVars, lifeVars, data, nextRef, idx, docCount, wal, muHeld, pc,
                   loc, res, calls, hist, ghostVars>>

\* ------------------------------------------------------------- Update
CallUpdate(t, id, patch) ==
    /\ CanCall(t)
    /\ Begin(t, "update", id, patch, "upd_load")
    /\ UNCHANGED <<textVars, unitVars, lifeVars, data, nextRef, idx, docCount, fileVars, poolVars,
                   muHeld, res, writers, hist, ghostVars>>

\* An Update that takes every id as stored: C16 fails for it.
UpdateFoundAlways(id) == TRUE

\* document.go:176: `if value, ok := db.data.Load(id); ok`.
UpdateFound(id) == Stored(id)

\* document.go:176 and 239-241: load the entry; not found is an error.
UpdLoad(t) ==
    /\ pc[t] = "upd_load"
    /\ IF UpdateFound(loc[t].id)
       THEN /\ loc' = [loc EXCEPT ![t].old = data[loc[t].id]]
            /\ Goto(t, "upd_lock")
            /\ UNCHANGED <<res, hist>>
       ELSE Return(t, "notfound", FALSE)
    /\ UNCHANGED <<textVars, unitVars, lifeVars, data, nextRef, idx, docCount, fileVars, poolVars,
                   muHeld, writers, calls, ghostVars>>

\* document.go:178: oldDoc.mu.Lock().
UpdLock(t) ==
    /\ pc[t] = "upd_lock"
    /\ ~DocLocked(loc[t].old.ref)
    /\ Goto(t, "upd_cas")
    /\ UNCHANGED <<textVars, unitVars, lifeVars, data, nextRef, idx, docCount, fileVars, poolVars,
                   muHeld, loc, res, writers, calls, hist, ghostVars>>

\* A swap that does not compare: C24 fails for it.
SwapAlways(cur, old) == TRUE

\* document.go:195 db.data.CompareAndSwap(id, value, newDoc): the entry is
\* swapped only if it is still the loaded one.
CompareAndSwap(cur, old) == cur = old

\* document.go:180-195 and 234-236: build the new mapping and CompareAndSwap
\* the entry; on failure unlock and retry.
UpdCas(t) ==
    /\ pc[t] = "upd_cas"
    /\ LET newDoc == [ref |-> nextRef, d |-> Merge(loc[t].old.d, loc[t].arg)]
       IN IF CompareAndSwap(data[loc[t].id], loc[t].old)
          THEN /\ data' = [data EXCEPT ![loc[t].id] = newDoc]
               /\ nextRef' = nextRef + 1
               /\ loc' = [loc EXCEPT ![t].new = newDoc]
               /\ Goto(t, "upd_wal")
          ELSE /\ loc' = [loc EXCEPT ![t].old = NoEntry]
               /\ Goto(t, "upd_load")
               /\ UNCHANGED <<data, nextRef>>
    /\ UNCHANGED <<textVars, unitVars, lifeVars, idx, docCount, fileVars, poolVars, muHeld, res,
                   writers, calls, hist, ghostVars>>

\* document.go:198-203: append the UPDATE record; on failure unlock and return.
UpdWal(t) ==
    /\ pc[t] = "upd_wal"
    /\ muHeld = 0
    /\ \E ok \in WalOutcomes :
        IF ok
        THEN /\ wal' = Append(wal, WalRecord("UPDATE", loc[t].id, loc[t].new.d))
             /\ Goto(t, "upd_index")
             /\ UNCHANGED <<loc, res, hist>>
        ELSE /\ Return(t, "walerr", FALSE)
             /\ UNCHANGED wal
    /\ UNCHANGED <<textVars, unitVars, lifeVars, data, nextRef, idx, docCount, dataFile, poolVars,
                   muHeld, writers, calls, ghostVars>>

\* document.go:205-214: updateIndex under the index's write lock.
UpdIndex(t) ==
    /\ pc[t] = "upd_index"
    /\ IF idx.exists
       THEN /\ ~IdxRLocked
            /\ idx' = updateIndex(idx, loc[t].id, loc[t].old.d, loc[t].new.d)
       ELSE UNCHANGED idx
    /\ Goto(t, "upd_ret")
    /\ UNCHANGED <<textVars, unitVars, lifeVars, data, nextRef, docCount, fileVars, poolVars,
                   muHeld, loc, res, writers, calls, hist, ghostVars>>

\* document.go:216-231: writeWg.Add(1), start the writer, unlock, return.
UpdRet(t) ==
    /\ pc[t] = "upd_ret"
    /\ wg' = wg + 1
    /\ writers' = writers \cup {[n |-> loc[t].cn, id |-> loc[t].id,
                                 d |-> loc[t].new.d, kind |-> "upd",
                                 st |-> "spawned"]}
    /\ Return(t, "ok", FALSE)
    /\ snap' = Acked
    /\ UNCHANGED <<textVars, unitVars, lifeVars, data, nextRef, idx, docCount, fileVars, slots,
                   muHeld, calls, base>>

\* ------------------------------------------------------------- Delete
CallDelete(t, id) ==
    /\ CanCall(t)
    /\ Begin(t, "delete", id, EmptyDoc, "del_lad")
    /\ UNCHANGED <<textVars, unitVars, lifeVars, data, nextRef, idx, docCount, fileVars, poolVars,
                   muHeld, res, writers, hist, ghostVars>>

\* A Delete that takes every id as stored: C17 fails for it.
DeleteFoundAlways(id) == TRUE

\* document.go:267: `if value, ok := db.data.LoadAndDelete(id); ok`.
DeleteFound(id) == Stored(id)

\* document.go:267 and 298-300: LoadAndDelete; an absent id returns nil.
DelLad(t) ==
    /\ pc[t] = "del_lad"
    /\ IF DeleteFound(loc[t].id)
       THEN /\ loc' = [loc EXCEPT ![t].old = data[loc[t].id]]
            /\ data' = [data EXCEPT ![loc[t].id] = NoEntry]
            /\ Goto(t, "del_lock")
            /\ UNCHANGED <<res, hist>>
       ELSE /\ Return(t, "ok", FALSE)
            /\ UNCHANGED data
    /\ UNCHANGED <<textVars, unitVars, lifeVars, nextRef, idx, docCount, fileVars, poolVars,
                   muHeld, writers, calls, ghostVars>>

\* document.go:270: doc.mu.Lock().
DelLock(t) ==
    /\ pc[t] = "del_lock"
    /\ ~DocLocked(loc[t].old.ref)
    /\ Goto(t, "del_wal")
    /\ UNCHANGED <<textVars, unitVars, lifeVars, data, nextRef, idx, docCount, fileVars, poolVars,
                   muHeld, loc, res, writers, calls, hist, ghostVars>>

\* document.go:273-277: append the DELETE record; on failure return the error.
DelWal(t) ==
    /\ pc[t] = "del_wal"
    /\ muHeld = 0
    /\ \E ok \in WalOutcomes :
        IF ok
        THEN /\ wal' = Append(wal, WalRecord("DELETE", loc[t].id, EmptyDoc))
             /\ Goto(t, "del_index")
             /\ UNCHANGED <<loc, res, hist>>
        ELSE /\ Return(t, "walerr", FALSE)
             /\ UNCHANGED wal
    /\ UNCHANGED <<textVars, unitVars, lifeVars, data, nextRef, idx, docCount, dataFile, poolVars,
                   muHeld, writers, calls, ghostVars>>

\* document.go:279-288: removeFromIndex under the index's write lock.
DelIndex(t) ==
    /\ pc[t] = "del_index"
    /\ IF idx.exists
       THEN /\ ~IdxRLocked
            /\ idx' = removeFromIndex(idx, loc[t].id, loc[t].old.d)
       ELSE UNCHANGED idx
    /\ Goto(t, "del_ret")
    /\ UNCHANGED <<textVars, unitVars, lifeVars, data, nextRef, docCount, fileVars, poolVars,
                   muHeld, loc, res, writers, calls, hist, ghostVars>>

\* A Delete that leaves the counter alone: C6 (amended) fails for it.
CountAfterDeleteSkipped(c) == c

\* document.go:291: atomic.AddInt64(&db.docCount, -1).
CountAfterDelete(c) == c - 1

\* document.go:290-295 and 271: decrement, then the deferred unlock, return nil.
DelRet(t) ==
    /\ pc[t] = "del_ret"
    /\ docCount' = CountAfterDelete(docCount)
    /\ Return(t, "ok", TRUE)
    /\ snap' = [snap EXCEPT !.acked = StoreView]
    /\ UNCHANGED <<textVars, unitVars, lifeVars, data, nextRef, idx, fileVars, poolVars, muHeld,
                   writers, calls, base>>

\* ------------------------------------------------------------- Get
CallGet(t, id) ==
    /\ CanCall(t)
    /\ Begin(t, "get", id, EmptyDoc, "get_load")
    /\ UNCHANGED <<textVars, unitVars, lifeVars, data, nextRef, idx, docCount, fileVars,
                   poolVars, muHeld, res, writers, hist, ghostVars>>

\* document.go:326 and 337-342: load the entry; an absent id is not found.
GetLoad(t) ==
    /\ pc[t] = "get_load"
    /\ IF Stored(loc[t].id)
       THEN /\ loc' = [loc EXCEPT ![t].old = data[loc[t].id]]
            /\ Goto(t, "get_rlock")
            /\ UNCHANGED <<res, hist>>
       ELSE Return(t, "absent", FALSE)
    /\ UNCHANGED <<textVars, unitVars, lifeVars, data, nextRef, idx, docCount, fileVars,
                   poolVars, muHeld, writers, calls, ghostVars>>

\* A Get that reads the primary key from the loaded document and the other
\* field from the entry the store holds now: C25 fails for it.
GetResultTorn(loaded, current) ==
    [f \in Fields |-> IF f = primaryKey THEN loaded.d[f] ELSE current.d[f]]

\* document.go:335 `return doc.data, true`: the mapping of the loaded
\* document, whatever entry the store holds now.
GetResult(loaded, current) == loaded.d

\* document.go:329-335: doc.mu.RLock() waits for a writer that holds the
\* loaded document, then the mapping is read.
GetRLock(t) ==
    /\ pc[t] = "get_rlock"
    /\ ~DocLocked(loc[t].old.ref)
    /\ loc' = [loc EXCEPT ![t].new =
                  [ref |-> loc[t].old.ref,
                   d |-> GetResult(loc[t].old, data[loc[t].id])]]
    /\ Goto(t, "get_ret")
    /\ UNCHANGED <<textVars, unitVars, lifeVars, data, nextRef, idx, docCount, fileVars,
                   poolVars, muHeld, res, writers, calls, hist, ghostVars>>

\* document.go:330 and 335: the deferred RUnlock, return the mapping.
GetRet(t) ==
    /\ pc[t] = "get_ret"
    /\ Return(t, "found", FALSE)
    /\ UNCHANGED <<textVars, unitVars, lifeVars, data, nextRef, idx, docCount, fileVars,
                   poolVars, muHeld, writers, calls, ghostVars>>

\* ------------------------------------------------------------- CreateIndex
CallCreateIndex(t) ==
    /\ CanCall(t)
    /\ Begin(t, "createIndex", 0, EmptyDoc, "ci_lock")
    /\ UNCHANGED <<textVars, unitVars, lifeVars, data, nextRef, idx, docCount, fileVars, poolVars,
                   muHeld, res, writers, hist, ghostVars>>

\* indexs.go:49-61 and 75-78: take db.mu; an index that exists is left alone,
\* else the new, empty index is registered.
CiLock(t) ==
    /\ pc[t] = "ci_lock"
    /\ muHeld = 0
    /\ IF idx.exists
       THEN /\ Return(t, "exists", FALSE)
            /\ UNCHANGED <<idx, muHeld>>
       ELSE /\ idx' = EmptyIndex
            /\ muHeld' = t
            /\ loc' = [loc EXCEPT ![t].todo = Ids]
            /\ Goto(t, "ci_range")
            /\ UNCHANGED <<res, hist>>
    /\ UNCHANGED <<textVars, unitVars, lifeVars, data, nextRef, docCount, fileVars, poolVars,
                   writers, calls, ghostVars>>

\* indexs.go:65-67: db.data.Range visits the keys in no fixed order and loads
\* the entry a key has when it is visited.
CiRange(t) ==
    /\ pc[t] = "ci_range"
    /\ \E id \in loc[t].todo :
        IF Stored(id)
        THEN /\ loc' = [loc EXCEPT ![t].todo = @ \ {id}, ![t].key = id,
                                   ![t].new = data[id]]
             /\ Goto(t, "ci_index")
        ELSE /\ loc' = [loc EXCEPT ![t].todo = @ \ {id}]
             /\ UNCHANGED pc
    /\ UNCHANGED <<textVars, unitVars, lifeVars, data, nextRef, idx, docCount, fileVars,
                   poolVars, muHeld, res, writers, calls, hist, ghostVars>>

\* indexs.go:68 and 155-186: indexDocument on the loaded document waits for
\* its read lock, whoever holds the document now, then for the index's
\* write lock.
CiIndex(t) ==
    /\ pc[t] = "ci_index"
    /\ ~DocLocked(loc[t].new.ref)
    /\ ~IdxRLocked
    /\ idx' = indexDocument(idx, loc[t].new.d, loc[t].key)
    /\ loc' = [loc EXCEPT ![t].key = 0, ![t].new = NoEntry]
    /\ Goto(t, "ci_range")
    /\ UNCHANGED <<textVars, unitVars, lifeVars, data, nextRef, docCount, fileVars,
                   poolVars, muHeld, res, writers, calls, hist, ghostVars>>

\* indexs.go:50 and 74: the deferred db.mu.Unlock, return.
CiRet(t) ==
    /\ pc[t] = "ci_range"
    /\ loc[t].todo = {}
    /\ muHeld' = 0
    /\ Return(t, "ok", FALSE)
    /\ UNCHANGED <<textVars, unitVars, lifeVars, data, nextRef, idx, docCount, fileVars, poolVars,
                   writers, calls, ghostVars>>

\* ------------------------------------------------------------- lifecycle
\* part_001:91-107 Close: wait for the wait group, close both files.  Close is
\* called when no other call is in progress.
Close ==
    /\ phase = "open"
    /\ Quiescent
    /\ wg = 0
    /\ phase' = "closed"
    /\ snap' = [snap EXCEPT !.closed = StoreView]
    /\ UNCHANGED <<textVars, unitVars, gen, numWorkers, ioFails, data, nextRef, idx,
                   docCount, fileVars, poolVars, muHeld, pc, loc, res, writers,
                   calls, hist, base>>

\* The process stops: every goroutine and all memory is gone, the files stay.
Crash ==
    /\ phase = "open"
    /\ gen < MaxGen
    /\ phase' = "down"
    /\ data' = [id \in Ids |-> NoEntry]
    /\ nextRef' = 1
    /\ idx' = NoIndex
    /\ docCount' = 0
    /\ wg' = 0
    /\ slots' = 0
    /\ muHeld' = 0
    /\ pc' = [t \in Threads |-> "idle"]
    /\ loc' = [t \in Threads |-> LocInit]
    /\ res' = [t \in Threads |-> "none"]
    /\ writers' = {}
    /\ UNCHANGED <<textVars, unitVars, gen, numWorkers, ioFails, fileVars, calls, hist,
                   ghostVars>>

\* A WAL opened without O_TRUNC keeps its records: C31 fails for it.
OpenWALKept(log) == log

\* utils.go:30 FileOpenModeWAL = O_RDWR|O_CREATE|O_TRUNC: what the WAL file
\* holds once NewDatabase has opened it.
OpenWAL(log) == <<>>

\* part_001:28-70 NewDatabase on the same directory: a fresh Database, the data
\* file kept (O_RDWR|O_CREATE), the WAL truncated (O_TRUNC), then loadData and
\* recoverFromWAL.  Goroutines of the closed handle can no longer write.
Open ==
    /\ phase \in {"closed", "down"}
    /\ Quiescent
    /\ gen < MaxGen
    /\ LET truncated == OpenWAL(wal)
           ld == loadData(dataFile, [store |-> EmptyView, count |-> 0])
           store == recoverFromWAL(truncated, ld.store)
       IN /\ wal' = truncated
          /\ data' = [id \in Ids |->
                        IF store[id] = EmptyDoc THEN NoEntry
                        ELSE [ref |-> id, d |-> store[id]]]
          /\ docCount' = ld.count
          /\ base' = [count |-> ld.count,
                      ids |-> {id \in Ids : store[id] # EmptyDoc}]
          /\ snap' = [snap EXCEPT !.loaded = store, !.stopAcked = snap.acked,
                                  !.stopClosed = snap.closed,
                                  !.clean = (phase = "closed"),
                                  !.acked = store]
    /\ nextRef' = MaxId + 1
    /\ phase' = "open"
    /\ gen' = gen + 1
    /\ idx' = NoIndex
    /\ wg' = 0
    /\ slots' = 0
    /\ muHeld' = 0
    /\ pc' = [t \in Threads |-> "idle"]
    /\ loc' = [t \in Threads |-> LocInit]
    /\ res' = [t \in Threads |-> "none"]
    /\ writers' = {}
    /\ hist' = <<>>
    /\ UNCHANGED <<textVars, unitVars, numWorkers, ioFails, dataFile, calls>>

\* ------------------------------------------------------------- specifications
\* The steps thread t can take.
Calls(t) ==
    \/ \E doc \in InsertDocs : CallInsert(t, doc)
    \/ \E id \in Ids : \E patch \in Patches : CallUpdate(t, id, patch)
    \/ \E id \in Ids : CallDelete(t, id)
    \/ CallCreateIndex(t)

InsertSteps(t) ==
    \/ InsCheck(t)
    \/ InsWal(t)
    \/ InsWg(t)
    \/ InsSem(t)
    \/ InsStore(t)
    \/ InsIndex(t)
    \/ InsCount(t)
    \/ InsRet(t)

UpdateSteps(t) ==
    \/ UpdLoad(t)
    \/ UpdLock(t)
    \/ UpdCas(t)
    \/ UpdWal(t)
    \/ UpdIndex(t)
    \/ UpdRet(t)

DeleteSteps(t) ==
    \/ DelLad(t)
    \/ DelLock(t)
    \/ DelWal(t)
    \/ DelIndex(t)
    \/ DelRet(t)

CreateIndexSteps(t) ==
    \/ CiLock(t)
    \/ CiRange(t)
    \/ CiIndex(t)
    \/ CiRet(t)

WriterSteps ==
    \/ \E w \in writers : WriterInsert(w)
    \/ \E w \in writers : WriterSem(w)
    \/ \E w \in writers : WriterUpdate(w)

\* Spec: NumThreads goroutines call Insert, Update, Delete and CreateIndex on
\* an open database in any interleaving.
Next ==
    \/ \E t \in Threads : Calls(t)
    \/ \E t \in Threads : InsertSteps(t)
    \/ \E t \in Threads : InsRLock(t)
    \/ \E t \in Threads : UpdateSteps(t)
    \/ \E t \in Threads : DeleteSteps(t)
    \/ \E t \in Threads : CreateIndexSteps(t)
    \/ WriterSteps

Spec == Init /\ [][Next]_vars

\* SpecLife: one goroutine uses the database, which is closed or crashes and
\* is opened again on the same directory.
NextLife ==
    \/ Calls(1)
    \/ InsertSteps(1)
    \/ UpdateSteps(1)
    \/ DeleteSteps(1)
    \/ CreateIndexSteps(1)
    \/ WriterSteps
    \/ Close
    \/ Crash
    \/ Open

SpecLife == Init /\ [][NextLife]_vars

\* One caller on an open database whose WAL appends may fail.
NextFault ==
    \/ Calls(1)
    \/ InsertSteps(1)
    \/ UpdateSteps(1)
    \/ DeleteSteps(1)
    \/ CreateIndexSteps(1)
    \/ WriterSteps

SpecFault == InitFault /\ [][NextFault]_vars

\* The document of id 1 as loadData decodes it: a string key, a float64 age.
LoadedDoc == NewDoc(<<"str", 1>>, <<"float", 1>>)
LoadedFile == <<DataRecord(1, LoadedDoc)>>

\* part_001:28-70 NewDatabase, with MaxWorkers workers, on a directory whose
\* data file holds the record of LoadedDoc: loadData stores it, the WAL is
\* empty, no index is registered.
InitLoaded ==
    LET ld == loadData(LoadedFile, [store |-> EmptyView, count |-> 0])
    IN  /\ phase = "open"
        /\ gen = 0
        /\ numWorkers = MaxWorkers
        /\ data = [id \in Ids |-> IF ld.store[id] = EmptyDoc THEN NoEntry
                                  ELSE [ref |-> id, d |-> ld.store[id]]]
        /\ nextRef = MaxId + 1
        /\ idx = NoIndex
        /\ docCount = ld.count
        /\ wal = <<>>
        /\ dataFile = LoadedFile
        /\ wg = 0
        /\ slots = 0
        /\ muHeld = 0
        /\ pc = [t \in Threads |-> "idle"]
        /\ loc = [t \in Threads |-> LocInit]
        /\ res = [t \in Threads |-> "none"]
        /\ writers = {}
        /\ calls = 0
        /\ hist = <<>>
        /\ base = [count |-> ld.count,
                   ids |-> {id \in Ids : ld.store[id] # EmptyDoc}]
        /\ snap = [acked |-> ld.store, closed |-> ld.store, clean |-> TRUE,
                   stopAcked |-> ld.store, stopClosed |-> ld.store,
                   loaded |-> ld.store]
        /\ ioFails = FALSE
        /\ textData = [id \in Ids |-> NoTextDoc]
        /\ textIndexes = {}
        /\ trie = NewTrie
        /\ composite = {}
        /\ trieLog = <<>>
        /\ fileBytes = <<>>
        /\ loadRes = NotLoaded

\* Patches of the loaded document: a float64 age, a new value of the field
\* id, or both.
UpdPatches ==
    {NewDoc(Absent, <<"float", n>>) : n \in 1..MaxVal}
        \cup {NewDoc(<<"str", n>>, Absent) : n \in 1..MaxVal}
        \cup {NewDoc(<<"str", n>>, <<"float", n>>) : n \in 1..MaxVal}

GetSteps(t) ==
    \/ GetLoad(t)
    \/ GetRLock(t)
    \/ GetRet(t)

\* SpecUpd: NumThreads goroutines call Update, Get and CreateIndex on the
\* loaded document in any interleaving.
NextUpd ==
    \/ \E t \in Threads : \E patch \in UpdPatches : CallUpdate(t, 1, patch)
    \/ \E t \in Threads : CallGet(t, 1)
    \/ \E t \in Threads : CallCreateIndex(t)
    \/ \E t \in Threads : UpdateSteps(t)
    \/ \E t \in Threads : GetSteps(t)
    \/ \E t \in Threads : CreateIndexSteps(t)
    \/ \E w \in writers : WriterSem(w)
    \/ \E w \in writers : WriterUpdate(w)

SpecUpd == InitLoaded /\ [][NextUpd]_vars

\* The steps of the calls of goroutine t on the loaded document.
FairSteps(t) ==
    \/ UpdateSteps(t)
    \/ DeleteSteps(t)
    \/ GetSteps(t)
    \/ CreateIndexSteps(t)

FairWriterSteps ==
    \/ \E w \in writers : WriterSem(w)
    \/ \E w \in writers : WriterUpdate(w)

NextFair ==
    \/ \E t \in Threads : \E patch \in Patches : CallUpdate(t, 1, patch)
    \/ \E t \in Threads : CallDelete(t, 1)
    \/ \E t \in Threads : CallGet(t, 1)
    \/ \E t \in Threads : CallCreateIndex(t)
    \/ \E t \in Threads : FairSteps(t)
    \/ FairWriterSteps

\* SpecFair: the Go scheduler runs every goroutine that can run: a call that
\* can take its next step takes it, and so does a writer goroutine. Nothing
\* obliges a caller to make a call.
SpecFair ==
    /\ InitLoaded
    /\ [][NextFair]_vars
    /\ \A t \in Threads : WF_vars(FairSteps(t))
    /\ WF_vars(FairWriterSteps)

\* The steps of the Insert and Update calls of goroutine t.
PoolSteps(t) ==
    \/ InsertSteps(t)
    \/ InsRLock(t)
    \/ UpdateSteps(t)

NextPool ==
    \/ \E t \in Threads : \E age \in AgeInputs :
           CallInsert(t, NewDoc(<<"str", 1>>, age))
    \/ \E t \in Threads : \E patch \in Patches : CallUpdate(t, 1, patch)
    \/ \E t \in Threads : PoolSteps(t)
    \/ WriterSteps

\* SpecPool: Insert and Update calls on a database made by NewDatabase with
\* any worker count from 0 to MaxWorkers, under a scheduler that runs every
\* goroutine that can run.
SpecPool ==
    /\ Init
    /\ [][NextPool]_vars
    /\ \A t \in Threads : WF_vars(PoolSteps(t))
    /\ WF_vars(WriterSteps)

\* ------------------------------------------------------------- text calls
\* One caller at a time on an open database whose documents carry the string
\* fields name and tag; every call runs to its return and its WAL append
\* succeeds.  At most MaxTextCalls calls are issued.
mainVars == <<phase, gen, numWorkers, data, nextRef, idx, docCount, wal,
              dataFile, wg, slots, muHeld, pc, loc, res, writers, hist, base,
              snap, ioFails>>

TextCall ==
    /\ calls < MaxTextCalls
    /\ calls' = calls + 1
    /\ UNCHANGED <<mainVars, unitVars>>

TextStored == {id \in Ids : textData[id].stored}

RECURSIVE IndexAllTrie(_, _)
IndexAllTrie(t, ids) ==
    IF ids = {} THEN t
    ELSE LET id == CHOOSE i \in ids : TRUE
         IN  IndexAllTrie(indexDocumentTrie(t, id, textData[id]), ids \ {id})

\* indexs.go:44-79 CreateIndex(name): register the index and index every
\* stored document.
TextCreateIndex ==
    /\ nameField \notin textIndexes
    /\ textIndexes' = textIndexes \cup {nameField}
    /\ trie' = IndexAllTrie(NewTrie, TextStored)
    /\ TextCall
    /\ UNCHANGED <<textData, composite>>

\* indexs.go:99-136 CreateCompositeIndex([name, tag]).
TextCreateCompositeIndex ==
    /\ indexKey \notin textIndexes
    /\ textIndexes' = textIndexes \cup {indexKey}
    /\ composite' = {<<compositeKey(textData[id]), id>> : id \in TextStored}
    /\ TextCall
    /\ UNCHANGED <<textData, trie>>

\* document.go:39-147 Insert of a document whose id is not stored.
TextInsert(id, name, tag) ==
    LET doc == [stored |-> TRUE, name |-> name, tag |-> tag]
    IN  /\ ~textData[id].stored
        /\ textData' = [textData EXCEPT ![id] = doc]
        /\ trie' = IF nameField \in textIndexes
                   THEN indexDocumentTrie(trie, id, doc) ELSE trie
        /\ composite' = IF indexKey \in textIndexes
                        THEN indexDocumentComposite(composite, id, doc)
                        ELSE composite
        /\ TextCall
        /\ UNCHANGED textIndexes

\* document.go:169-243 Update of a stored document: the patch's fields are
\* laid over the old ones, then every index is updated.
TextUpdate(id, name, tag) ==
    LET old == textData[id]
        new == [stored |-> TRUE,
                name |-> IF name.has THEN name ELSE old.name,
                tag |-> IF tag.has THEN tag ELSE old.tag]
    IN  /\ old.stored
        /\ textData' = [textData EXCEPT ![id] = new]
        /\ trie' = IF nameField \in textIndexes
                   THEN updateIndexTrie(trie, id, old, new) ELSE trie
        /\ composite' = IF indexKey \in textIndexes
                        THEN updateCompositeIndex(composite, id, old, new)
                        ELSE composite
        /\ TextCall
        /\ UNCHANGED textIndexes

\* document.go:262-301 Delete of a stored document.
TextDelete(id) ==
    LET doc == textData[id]
    IN  /\ doc.stored
        /\ textData' = [textData EXCEPT ![id] = NoTextDoc]
        /\ trie' = IF nameField \in textIndexes
                   THEN removeFromIndexTrie(trie, id, doc) ELSE trie
        /\ composite' = IF indexKey \in textIndexes
                        THEN removeFromCompositeIndex(composite, id, doc)
                        ELSE composite
        /\ TextCall
        /\ UNCHANGED textIndexes

\* Calls on a database whose documents carry a name, with CreateIndex(name).
NextFuzzy ==
    \/ TextCreateIndex
    \/ \E id \in Ids, name \in NameInputs : TextInsert(id, name, Missing)
    \/ \E id \in Ids, name \in NameInputs : TextUpdate(id, name, Missing)
    \/ \E id \in Ids : TextDelete(id)

SpecFuzzy == Init /\ [][NextFuzzy]_vars

\* Calls on a database whose documents carry a name and a tag, with
\* CreateCompositeIndex([name, tag]).
NextComposite ==
    \/ TextCreateCompositeIndex
    \/ \E id \in Ids, name \in TagInputs, tag \in TagInputs :
           TextInsert(id, name, tag)
    \/ \E id \in Ids, name \in TagInputs, tag \in TagInputs :
           TextUpdate(id, name, tag)
    \/ \E id \in Ids : TextDelete(id)

SpecComposite == Init /\ [][NextComposite]_vars

\* ------------------------------------------------------------- Trie alone
MaxTrieOps == 3

\* trie.go:49 Trie.Insert(word, docID) on a Trie made by NewTrie.
TrieInsertCall(word, id) ==
    /\ Len(trieLog) < MaxTrieOps
    /\ trie' = TrieInsert(trie, word, id)
    /\ trieLog' = Append(trieLog, [op |-> "Insert", word |-> word, id |-> id])
    /\ UNCHANGED <<mainVars, calls, textData, textIndexes, composite,
                   fileBytes, loadRes>>

\* trie.go:112 Trie.Remove(word, docID).
TrieRemoveCall(word, id) ==
    /\ Len(trieLog) < MaxTrieOps
    /\ trie' = TrieRemove(trie, word, id)
    /\ trieLog' = Append(trieLog, [op |-> "Remove", word |-> word, id |-> id])
    /\ UNCHANGED <<mainVars, calls, textData, textIndexes, composite,
                   fileBytes, loadRes>>

\* SpecTrie: any MaxTrieOps calls of Insert and Remove on a new Trie.
NextTrie ==
    \/ \E word \in TrieNodes, id \in Ids : TrieInsertCall(word, id)
    \/ \E word \in TrieNodes, id \in Ids : TrieRemoveCall(word, id)

SpecTrie == Init /\ [][NextTrie]_vars

\* ------------------------------------------------------------- loadData alone
\* The documents of an id that a data file can hold.
FileDocs(id) == {NewDoc(<<"str", id>>, <<"float", n>>) : n \in 1..MaxVal}

\* write.go:80-122 writeToDataFile has appended a whole record.
AppendRecord(id, d) ==
    /\ loadRes.state = "none"
    /\ Len(fileBytes) % RecordLen = 0
    /\ Len(fileBytes) < MaxFileRecords * RecordLen
    /\ fileBytes' = fileBytes \o Encode(DataRecord(id, d))
    /\ UNCHANGED <<mainVars, calls, textVars, trieLog, loadRes>>

\* The process stops while writeToDataFile writes (write.go:110-118): the
\* file keeps the first k bytes of the record.
TornAppend(id, d, k) ==
    /\ loadRes.state = "none"
    /\ Len(fileBytes) % RecordLen = 0
    /\ fileBytes' = fileBytes \o SubSeq(Encode(DataRecord(id, d)), 1, k)
    /\ UNCHANGED <<mainVars, calls, textVars, trieLog, loadRes>>

\* part_001:58-61 NewDatabase calls loadData on the file.
LoadFile ==
    /\ loadRes.state = "none"
    /\ loadRes' = loadBytes(fileBytes, NotLoaded)
    /\ UNCHANGED <<mainVars, calls, textVars, trieLog, fileBytes>>

\* SpecLoad: a data file of up to MaxFileRecords records, possibly with a
\* torn last record, is loaded.
NextLoad ==
    \/ \E id \in Ids : \E d \in FileDocs(id) : AppendRecord(id, d)
    \/ \E id \in Ids : \E d \in FileDocs(id) :
           \E k \in 1..(RecordLen - 1) : TornAppend(id, d, k)
    \/ LoadFile

SpecLoad == Init /\ [][NextLoad]_vars

\* ------------------------------------------------------------- text queries
\* complexquery.go:47-67 fullScanFuzzyQuery: the stored documents that have
\* the field and whose text matches the pattern, neither side lowercased.
fullScanFuzzyQuery(pattern) ==
    {id \in TextStored : /\ textData[id].name.has
                         /\ wildcardToRegexp(pattern,
                                             Sprintf(textData[id].name))}

\* complexquery.go:14-44 FuzzyQuery(name, pattern): with an index the ids the
\* trie gives for the lowercased pattern, each resolved by Get.
FuzzyQuery(pattern) ==
    IF nameField \in textIndexes
    THEN {id \in FuzzySearch(trie, ToLower(pattern)) : textData[id].stored}
    ELSE fullScanFuzzyQuery(pattern)

\* part_000:121-174 QueryComposite([name, tag], values): one lookup under the
\* joined text of the values, each id resolved by Get; nothing without the
\* index.
QueryComposite(values) ==
    IF indexKey \in textIndexes
    THEN {id \in Ids : /\ <<Join(Sprintf(Str(values[1])),
                                 Sprintf(Str(values[2]))), id>> \in composite
                       /\ textData[id].stored}
    ELSE {}

\* ------------------------------------------------------------- Query
\* part_000:36-68 Query on an indexed field: every bucket whose key equals the
\* value as float64 gives its ids, and each id that Get finds adds its
\* document to the results.  The result is how often each id's document is
\* returned.
QueryIndexed(v) ==
    [id \in Ids |->
        Cardinality({k \in Keys : /\ FloatEq(toFloat64(k), toFloat64(v))
                                  /\ id \in idx.values[k]
                                  /\ Stored(id)})]

\* part_000:69-96 Query without an index: scan the store.
QueryScan(v) ==
    [id \in Ids |->
        IF /\ Stored(id)
           /\ data[id].d[indexField] # Absent
           /\ FloatEq(toFloat64(data[id].d[indexField]), toFloat64(v))
        THEN 1 ELSE 0]

Query(v) == IF idx.exists THEN QueryIndexed(v) ELSE QueryScan(v)

\* ------------------------------------------------------------- RangeQuery
\* utils.go toComparableValue: int, int32, int64 -> int64; float32, float64 ->
\* float64; anything else is returned as it is.
toComparableValue(v) == IF v[1] = "int" THEN <<"int64", v[2]>> ELSE v

\* Twice the number a numeric value stands for.
Twice(v) == IF v[1] = "half" THEN 2 * v[2] + 1 ELSE 2 * v[2]
Sign(n) == IF n < 0 THEN -1 ELSE IF n > 0 THEN 1 ELSE 0

\* utils.go compareValues: the type of a decides how b is read.  With a an
\* int64, a float64 b is converted with int64(b), which drops its fraction;
\* with a a float64, an int64 b is converted exactly.  (A string against a
\* number panics; range queries of the model are numeric.)
compareValues(a, b) ==
    LET aValue == toComparableValue(a)
        bValue == toComparableValue(b)
    IN IF aValue[1] = "int64"
       THEN LET vb == IF bValue[1] = "int64" THEN bValue[2]
                      ELSE bValue[2]      \* int64(n.0) = int64(n.5) = n
            IN Sign(aValue[2] - vb)
       ELSE IF aValue[1] \in {"float", "half"}
       THEN Sign(Twice(aValue) - Twice(bValue))
       ELSE Sign(Text(aValue) - Text(bValue))

\* complexquery.go:166 and 196: min <= v <= max as RangeQuery tests it.
InRange(v, min, max) ==
    /\ compareValues(toComparableValue(v), toComparableValue(min)) >= 0
    /\ compareValues(toComparableValue(v), toComparableValue(max)) <= 0

\* The numeric values RangeQuery is called with.
RangeBounds == {v \in Values : v[1] # "str"}

\* complexquery.go:150-184 RangeQuery on an indexed field: the ids of every
\* bucket whose key is in range, each resolved by Get.
RangeQueryIndexed(min, max) ==
    {id \in Ids : /\ Stored(id)
                  /\ \E k \in Values : /\ id \in idx.values[k]
                                        /\ InRange(k, min, max)}

\* complexquery.go:185-212 RangeQuery without an index: scan the store.
RangeQueryScan(min, max) ==
    {id \in Ids : /\ Stored(id)
                  /\ data[id].d[indexField] # Absent
                  /\ InRange(data[id].d[indexField], min, max)}

RangeQuery(min, max) ==
    IF idx.exists THEN RangeQueryIndexed(min, max) ELSE RangeQueryScan(min, max)

\* ------------------------------------------------------------- claims
HistIdx == 1..Len(hist)
\* The returned calls of an operation with a result.
Returned(op, r) == {i \in HistIdx : hist[i].op = op /\ hist[i].res = r}
\* A database handle exists and was opened on an empty directory.
OpenedEmpty == phase # "down" /\ base.count = 0 /\ base.ids = {}

\* C1: after a restart (Close or a process stop, then NewDatabase on the same
\* directory) the store Open rebuilds equals the store as it was after the
\* last acknowledged mutation.
C1_RestartRestoresAcked == gen > 0 => snap.loaded = snap.stopAcked

\* C2: after Close and a reopen, Get gives for every id what it gave
\* immediately before Close.
C2_ReopenAfterCloseSameGets ==
    (gen > 0 /\ snap.clean) => snap.loaded = snap.stopClosed

\* C3: when Close has closed the data file no data-file write started by a
\* returned Insert or Update is still pending.
C3_CloseLeavesNoPendingWrite == phase = "closed" => writers = {}

\* C4: once concurrent Inserts with pairwise distinct, fresh ids have all
\* returned, each has succeeded, docCount has grown by their number and every
\* id is in the store.
InsertsOnly ==
    \A i \in HistIdx :
        \/ hist[i].op = "createIndex"
        \/ hist[i].op = "insert" /\ hist[i].id \in Ids \ base.ids
InsertCalls == {i \in HistIdx : hist[i].op = "insert"}
DistinctInsertIds ==
    \A i, j \in InsertCalls : i # j => hist[i].id # hist[j].id
C4_ConcurrentDistinctInserts ==
    (Quiescent /\ phase = "open" /\ InsertsOnly /\ DistinctInsertIds)
        => /\ \A i \in InsertCalls : hist[i].res = "ok"
           /\ docCount = base.count + Cardinality(InsertCalls)
           /\ \A i \in InsertCalls : Stored(hist[i].id)
\* Two Inserts with distinct ids that overlapped in time have both returned.
C4_Witness ==
    /\ Quiescent
    /\ Len(hist) = 2
    /\ InsertsOnly /\ DistinctInsertIds
    /\ \A i \in HistIdx : hist[i].op = "insert" /\ hist[i].h0 = 0
                          /\ hist[i].res = "ok"
    /\ docCount = 2

\* C5: in every reachable state docCount is the number of entries of the
\* store.
C5_CountIsStoreSize == docCount = Cardinality(StoreIds)

\* C6 as stated: at every quiescent point of a database opened empty, docCount
\* is the number of Inserts that returned success minus the number of Deletes
\* that returned success.
C6_CountIsInsertsMinusDeletes ==
    (Quiescent /\ OpenedEmpty)
        => docCount = Cardinality(Returned("insert", "ok"))
                        - Cardinality(Returned("delete", "ok"))
\* C6 amended: ... minus the number of successful Deletes that found their id
\* in the store (a Delete of an absent id succeeds and changes nothing).
RemovingDeletes == {i \in Returned("delete", "ok") : hist[i].rem}
C6_CountIsInsertsMinusRemovals ==
    (Quiescent /\ OpenedEmpty)
        => docCount = Cardinality(Returned("insert", "ok"))
                        - Cardinality(RemovingDeletes)
\* An Insert, a Delete that removed it and a Delete that found nothing have
\* all returned success.
C6_Witness ==
    /\ Quiescent /\ OpenedEmpty
    /\ Returned("insert", "ok") # {}
    /\ RemovingDeletes # {}
    /\ Returned("delete", "ok") \ RemovingDeletes # {}

\* C7: an Insert whose id the store holds when Insert looks it up returns the
\* duplicate-key error, and its steps change neither the store, the index,
\* docCount, the WAL nor the data file.
C7_Frame == UNCHANGED <<data, idx, docCount, wal, dataFile>>
C7_DuplicateInsertRejected ==
    [][\A t \in Threads :
        /\ (pc[t] = "ins_check" /\ data[loc[t].id] # NoEntry
                /\ pc'[t] # "ins_check" /\ phase' # "down")
            => /\ pc'[t] \in {"idle", "ins_rlock"}
               /\ pc'[t] = "idle" => res'[t] = "dup"
               /\ C7_Frame
        /\ (pc[t] = "ins_rlock" /\ pc'[t] # "ins_rlock" /\ phase' # "down")
            => /\ pc'[t] = "idle"
               /\ res'[t] = "dup"
               /\ C7_Frame]_vars
\* An Insert has returned the duplicate-key error.
C7_Witness == Returned("insert", "dup") # {}

\* C8: of the Inserts of one id that ran on a store without it (no Delete was
\* ever called), exactly one has returned success and the others the
\* duplicate-key error, and docCount counts the id once.
InsertsOf(id) == {i \in InsertCalls : hist[i].id = id}
C8_OneInsertPerIdSucceeds ==
    (Quiescent /\ OpenedEmpty /\ \A i \in HistIdx : hist[i].op # "delete")
        => /\ \A id \in Ids :
                InsertsOf(id) # {} =>
                    /\ Cardinality(InsertsOf(id) \cap Returned("insert", "ok")) = 1
                    /\ InsertsOf(id) \subseteq
                          Returned("insert", "ok") \cup Returned("insert", "dup")
           /\ docCount = Cardinality({id \in Ids : InsertsOf(id) # {}})

\* C9: at every quiescent point, with the index registered, a stored document
\* that has the indexed field has its id in exactly one bucket, the bucket of
\* its current value (under the raw or the coerced key), and any other id is
\* in no bucket.
BucketsOf(id) == {k \in Keys : id \in idx.values[k]}
C9_IndexMatchesStore ==
    (Quiescent /\ phase = "open" /\ idx.exists)
        => \A id \in Ids :
            IF Stored(id) /\ data[id].d[indexField] # Absent
            THEN \/ BucketsOf(id) = {data[id].d[indexField]}
                 \/ BucketsOf(id) = {IndexKey(data[id].d[indexField])}
            ELSE BucketsOf(id) = {}

\* C10: with the index registered, at every quiescent point Query(field, v)
\* returns exactly the stored documents whose current value equals v as
\* float64, each once.
C10_QueryMatchesStore ==
    (Quiescent /\ phase = "open" /\ idx.exists) => \A v \in Values : Query(v) = QueryScan(v)

\* C11: at every quiescent point, with the index registered, RangeQuery gives
\* for every min and max the documents the scan without an index gives.
C11_RangeQuerySameWithIndex ==
    (Quiescent /\ phase = "open" /\ idx.exists)
        => \A min, max \in RangeBounds :
              RangeQueryIndexed(min, max) = RangeQueryScan(min, max)

\* C12: at every quiescent point RangeQuery(field, min, max) returns exactly
\* the stored documents that have the field with min <= value <= max as
\* numbers (so all documents equal to min when min = max, none when
\* min > max).
RangeExpected(min, max) ==
    {id \in Ids : /\ Stored(id)
                  /\ data[id].d[indexField] # Absent
                  /\ Twice(min) <= Twice(data[id].d[indexField])
                  /\ Twice(data[id].d[indexField]) <= Twice(max)}
C12_RangeQueryInclusive ==
    (Quiescent /\ phase = "open")
        => \A min, max \in RangeBounds :
              RangeQuery(min, max) = RangeExpected(min, max)

\* C15: the step of Update that swaps the entry stores, under the same id, the
\* patch's value for every field the patch names and the previous value for
\* every other field, and changes no other id's entry; no other step of an
\* Update changes the store.
C15_UpdateOverlaysPatch ==
    [][\A t \in Threads :
        /\ (pc[t] = "upd_cas" /\ pc'[t] = "upd_wal")
            => /\ data'[loc[t].id] # NoEntry
               /\ \A f \in Fields :
                     data'[loc[t].id].d[f] =
                        IF loc[t].arg[f] # Absent THEN loc[t].arg[f]
                        ELSE data[loc[t].id].d[f]
               /\ \A j \in Ids \ {loc[t].id} : data'[j] = data[j]
        /\ (pc[t] \in {"upd_load", "upd_lock", "upd_wal", "upd_index", "upd_ret"}
                /\ pc'[t] # pc[t] /\ phase' # "down")
            => data' = data
        /\ (pc[t] = "upd_cas" /\ pc'[t] = "upd_load") => data' = data]_vars
\* An Update that changed the indexed field has returned success.
C15_Witness ==
    \E i \in Returned("update", "ok") :
        /\ Stored(hist[i].id)
        /\ \E r \in 1..Len(wal) :
              /\ wal[r].op = "INSERT" /\ wal[r].id = hist[i].id
              /\ wal[r].d[indexField] # data[hist[i].id].d[indexField]
              /\ wal[r].d[primaryKey] = data[hist[i].id].d[primaryKey]

\* C16: an Update that does not find its id in the store returns the
\* not-found error, and its steps change neither the store, the index,
\* docCount, the WAL nor the data file.
C16_Frame == UNCHANGED <<data, idx, docCount, wal, dataFile>>
C16_UpdateAbsentNotFound ==
    [][\A t \in Threads :
        (pc[t] = "upd_load" /\ data[loc[t].id] = NoEntry
            /\ pc'[t] # "upd_load" /\ phase' # "down")
        => /\ pc'[t] = "idle"
           /\ res'[t] = "notfound"
           /\ C16_Frame]_vars
\* An Update has returned the not-found error.
C16_Witness == Returned("update", "notfound") # {}

\* C17: a Delete that does not find its id in the store returns success, and
\* its steps change neither the store, the index, docCount, the WAL nor the
\* data file.
C17_Frame == UNCHANGED <<data, idx, docCount, wal, dataFile>>
C17_DeleteAbsentSucceeds ==
    [][\A t \in Threads :
        (pc[t] = "del_lad" /\ data[loc[t].id] = NoEntry
            /\ pc'[t] # "del_lad" /\ phase' # "down")
        => /\ pc'[t] = "idle"
           /\ res'[t] = "ok"
           /\ C17_Frame]_vars
\* A Delete of an id that was not stored has returned success.
C17_Witness ==
    \E i \in Returned("delete", "ok") : ~hist[i].rem /\ ~Stored(hist[i].id)

\* C18: when the WAL append of an Insert fails (the Insert leaves its WAL step
\* with nothing appended), Insert returns the error, the id is not in the
\* store, and the store, the index, docCount, the data file, the wait group
\* and the worker pool are unchanged.
C18_InsertWalFailureAborts ==
    [][\A t \in Threads :
        (pc[t] = "ins_wal" /\ pc'[t] # "ins_wal" /\ wal' = wal)
        => /\ pc'[t] = "idle"
           /\ res'[t] = "walerr"
           /\ data'[loc[t].id] = NoEntry
           /\ UNCHANGED <<data, idx, docCount, dataFile, wg, slots>>]_vars
\* An Insert has returned the WAL error on an open database.
C18_Witness == phase = "open" /\ Returned("insert", "walerr") # {}

\* C19: when an Update or a Delete returns the WAL error, the store maps the
\* id to the entry the call found, and no other entry, the index and
\* docCount have changed since the call began.
C19_WalFailureLeavesStore ==
    [][\A t \in Threads :
        (pc[t] \in {"upd_wal", "del_wal"} /\ pc'[t] = "idle"
            /\ res'[t] = "walerr")
        => /\ data'[loc[t].id].d = loc[t].old.d
           /\ idx' = idx
           /\ docCount' = docCount]_vars

\* C20: while the database is closed, every Insert, Update and Delete that
\* returns returns an error, and no step of such a call changes the store,
\* the index or docCount.
C20_ClosedRejectsMutations ==
    [][\A t \in Threads :
        (phase = "closed" /\ phase' = "closed"
            /\ loc[t].op \in {"insert", "update", "delete"}
            /\ pc'[t] # pc[t])
        => /\ pc'[t] = "idle" => res'[t] # "ok"
           /\ UNCHANGED <<data, idx, docCount>>]_vars

\* C13: with an index on name, FuzzyQuery(name, pattern) returns exactly the
\* stored documents whose name, as lowercased text, matches the lowercased
\* pattern as a whole.
FuzzyExpected(pattern) ==
    {id \in TextStored :
        /\ textData[id].name.has
        /\ wildcardToRegexp(ToLower(pattern),
                            ToLower(Sprintf(textData[id].name)))}

C13_FuzzyQueryWholeMatch ==
    nameField \in textIndexes
        => \A pattern \in Patterns : FuzzyQuery(pattern) = FuzzyExpected(pattern)

\* C14: with a composite index on (name, tag), QueryComposite returns exactly
\* the stored documents whose name has the text of values[1] and whose tag
\* has the text of values[2]; a field the document lacks has the empty text.
FieldText(f) == IF f.has THEN Sprintf(f) ELSE <<>>

CompositeExpected(values) ==
    {id \in TextStored : /\ FieldText(textData[id].name) = values[1]
                         /\ FieldText(textData[id].tag) = values[2]}

C14_QueryCompositeMatchesFields ==
    indexKey \in textIndexes
        => \A v1 \in QueryValues, v2 \in QueryValues :
               QueryComposite(<<v1, v2>>) = CompositeExpected(<<v1, v2>>)

\* The documents the WAL holds for an id, and whether it holds a DELETE of it.
WalDocs(id) ==
    {wal[i].d : i \in {j \in 1..Len(wal) :
                          wal[j].id = id /\ wal[j].op # "DELETE"}}
WalDeletes(id) ==
    \E i \in 1..Len(wal) : wal[i].id = id /\ wal[i].op = "DELETE"

\* An Insert of the id has appended its WAL record and not yet stored.
InsertLogged(id) ==
    \E t \in Threads : /\ loc[t].op = "insert"
                        /\ loc[t].id = id
                        /\ pc[t] \in {"ins_wg", "ins_sem", "ins_store"}

\* C21: the WAL record of a mutation is appended before the store is changed:
\* on a database opened empty, a document the store holds is in a WAL record
\* of its id, and an id the WAL holds a document of and no DELETE of is in
\* the store, unless its Insert is about to store it.
C21_WalBeforeStore ==
    \A id \in Ids :
        /\ Stored(id) => data[id].d \in WalDocs(id)
        /\ (~Stored(id) /\ WalDocs(id) # {} /\ ~WalDeletes(id))
               => InsertLogged(id)

\* C22: the order of the WAL records of an id is the order in which the
\* mutations took effect on the store: when no call is in progress, the store
\* is what the WAL records give when applied in file order.
C22_WalOrderIsStoreOrder ==
    Quiescent => StoreView = recoverFromWAL(wal, EmptyView)

\* C27: the asynchronous data-file writes in progress (goroutines started by
\* Insert, and goroutines of Update that hold a worker slot) are at most the
\* worker count.
WritesInProgress == {w \in writers : w.kind = "ins" \/ w.st = "slot"}

C27_WritesBoundedByWorkers == Cardinality(WritesInProgress) <= numWorkers

\* The step thread t takes next acquires a lock while t holds a document
\* lock: db.mu in writeWAL under oldDoc.mu (Update) or doc.mu (Delete), the
\* index's write lock in updateIndex and removeFromIndex under the same
\* locks, and in indexDocument under the document's read lock.
AcquiresUnderDocLock(t) ==
    \/ pc[t] \in {"upd_wal", "del_wal"}
    \/ /\ pc[t] = "upd_index"
       /\ idx.exists
       /\ loc[t].old.d[indexField] # loc[t].new.d[indexField]
    \/ /\ pc[t] = "del_index"
       /\ idx.exists
       /\ loc[t].old.d[indexField] # Absent
    \/ /\ pc[t] \in {"ins_index", "ci_index"}
       /\ idx.exists
       /\ loc[t].new.d[indexField] # Absent

\* C28: no thread acquires a lock while it holds a document lock.
C28_DocLocksAreLeaves ==
    [][\A t \in Threads : pc'[t] # pc[t] => ~AcquiresUnderDocLock(t)]_vars

\* The WAL record of the mutation thread t is running.
OwnWalRecord(t) ==
    IF loc[t].op = "insert" THEN [op |-> "INSERT", id |-> loc[t].id,
                                   d |-> loc[t].arg]
    ELSE IF loc[t].op = "update" THEN [op |-> "UPDATE", id |-> loc[t].id,
                                        d |-> loc[t].new.d]
    ELSE [op |-> "DELETE", id |-> loc[t].id, d |-> EmptyDoc]

\* C30: when a mutation updates the indexes its WAL record is in the WAL and
\* its data-file writer has not been started.
C30_IndexAfterWalBeforeWrite ==
    [][\A t \in Threads :
        (pc[t] \in {"ins_index", "upd_index", "del_index"} /\ pc'[t] # pc[t])
        => /\ \E i \in 1..Len(wal) : wal[i] = OwnWalRecord(t)
           /\ \A w \in writers : w.n # loc[t].cn]_vars

\* An Update has changed the index after its WAL append.
C30_Witness ==
    \E t \in Threads :
        /\ pc[t] = "upd_ret"
        /\ idx.exists
        /\ idx.values[loc[t].new.d[indexField]] # {}
        /\ \E i \in 1..Len(wal) : wal[i] = OwnWalRecord(t)

\* The returned Insert, Update and Delete calls, and those of them that
\* appended a WAL record: all but the Deletes that found no entry.
MutationIdx == {i \in HistIdx : hist[i].op \in {"insert", "update", "delete"}}
LoggedIdx == {i \in MutationIdx : hist[i].op # "delete" \/ hist[i].rem}

\* Calls were issued one after another on a database opened empty and every
\* Insert, Update and Delete so far has succeeded.
SequentialSuccess ==
    /\ gen = 0
    /\ phase # "down"
    /\ Quiescent
    /\ \A i \in MutationIdx : hist[i].res = "ok"

\* C23: after the k-th of k successful mutations issued one after another,
\* the WAL holds k records and applying them in file order to an empty store
\* gives the store.
C23_WalPrefixReplaysCalls ==
    SequentialSuccess
        => /\ Len(wal) = Cardinality(MutationIdx)
           /\ recoverFromWAL(wal, EmptyView) = StoreView

\* C23 (amended): the same with k counting the mutations that found their
\* id: a Delete of an id that is not stored succeeds and appends no record.
C23_WalReplaysLoggedCalls ==
    SequentialSuccess
        => /\ Len(wal) = Cardinality(LoggedIdx)
           /\ recoverFromWAL(wal, EmptyView) = StoreView

\* An Insert, an Update and a Delete of an id that is not stored have
\* succeeded in a row.
C23_Witness ==
    /\ SequentialSuccess
    /\ Len(wal) = 2
    /\ Cardinality(MutationIdx) = 3
    /\ \E i \in MutationIdx : hist[i].op = "update"

\* The documents a set of Updates can leave when their patches are applied to
\* d one after another in some order.
RECURSIVE Outcomes(_, _)
Outcomes(d, calls_) ==
    IF calls_ = {} THEN {d}
    ELSE UNION {Outcomes([f \in Fields |->
                             IF hist[i].arg[f] # Absent THEN hist[i].arg[f]
                             ELSE d[f]], calls_ \ {i}) : i \in calls_}

\* C24: concurrent Updates of an id are linearizable: once all have returned,
\* the stored document is the loaded one with the patches of the successful
\* Updates applied one after another in some order.
C24_UpdatesLinearizable ==
    Quiescent
        => data[1].d \in Outcomes(snap.loaded[1], Returned("update", "ok"))

\* Two Updates that overlapped in time, one patching the age and one the
\* field id, have both returned, and the document has both new values.
C24_Witness ==
    /\ Quiescent
    /\ \E i, j \in Returned("update", "ok") :
          /\ i < j
          /\ hist[j].h0 < i
          /\ hist[i].arg[primaryKey] = Absent
          /\ hist[j].arg[indexField] = Absent
          /\ hist[i].arg[indexField] # snap.loaded[1][indexField]
          /\ hist[j].arg[primaryKey] # snap.loaded[1][primaryKey]
          /\ data[1].d = NewDoc(hist[j].arg[primaryKey],
                                hist[i].arg[indexField])

\* The complete documents an id has had: the loaded one, those the WAL
\* records, and the one an Update has swapped in and not yet logged.
Versions(id) ==
    {snap.loaded[id]} \cup WalDocs(id)
        \cup {loc[u].new.d : u \in {v \in Threads : /\ pc[v] = "upd_wal"
                                                     /\ loc[v].id = id}}

\* C25: the mapping a Get returns is a complete document the id has had,
\* from before or after an Update that runs at the same time.
C25_GetReturnsWholeDocument ==
    \A t \in Threads :
        pc[t] = "get_ret" => loc[t].new.d \in Versions(loc[t].id)

\* A Get returns the document an Update has swapped in, while that Update is
\* still running.
C25_Witness ==
    \E t, u \in Threads :
        /\ pc[t] = "get_ret"
        /\ pc[u] \in {"upd_wal", "upd_index", "upd_ret"}
        /\ loc[u].id = loc[t].id
        /\ loc[t].new.d = loc[u].new.d
        /\ loc[u].arg[primaryKey] # Absent
        /\ loc[u].arg[indexField] # Absent
        /\ loc[t].new.d # snap.loaded[1]

\* C29: CreateIndex has returned, then two Updates of id 1 that overlapped in
\* time have both returned: id 1 is in exactly one bucket, the bucket of the
\* age the stored document has.
C29_ConcurrentUpdatesOneBucket ==
    (/\ Quiescent
     /\ Len(hist) = 3
     /\ hist[1].op = "createIndex"
     /\ \A i \in 2..3 : /\ hist[i].op = "update"
                        /\ hist[i].res = "ok"
                        /\ hist[i].h0 = 1
                        /\ hist[i].arg[indexField] # Absent)
        => BucketsOf(1) = {IndexKey(data[1].d[indexField])}

\* C26: with at least one worker and a fair scheduler, every call that has
\* started returns.
C26_EveryCallReturns ==
    \A t \in Threads : (numWorkers >= 1 /\ pc[t] # "idle") ~> (pc[t] = "idle")

\* The ids that have a record in a data file.
FileIds(file) == {file[i].id : i \in 1..Len(file)}

C32_CountAfterLoadIsStoreSize ==
    (gen > 0 /\ phase = "open" /\ Quiescent /\ hist = <<>>)
        => /\ docCount = Cardinality(StoreIds)
           /\ docCount = Cardinality(FileIds(dataFile))

\* The buckets of the composite index that hold an id.
CompositeBucketsOf(id) == {e[1] : e \in {x \in composite : x[2] = id}}

\* C33: once the composite index exists, after every call a stored id is in
\* exactly one bucket, the one keyed by the texts of its document's name and
\* tag joined with "-" (a missing field giving the empty text), and an id
\* that is not stored is in no bucket.
C33_CompositeIndexMatchesStore ==
    indexKey \in textIndexes
        => \A id \in Ids :
              CompositeBucketsOf(id) =
                  IF textData[id].stored THEN {compositeKey(textData[id])}
                  ELSE {}

\* The number of Insert calls of the pair of call n that come immediately
\* before call n.
RECURSIVE InsertsBefore(_, _)
InsertsBefore(n, k) ==
    IF /\ k >= 1
       /\ trieLog[k].op = "Insert"
       /\ trieLog[k].word = trieLog[n].word
       /\ trieLog[k].id = trieLog[n].id
    THEN 1 + InsertsBefore(n, k - 1)
    ELSE 0

\* The last call was Remove(word, id) and the N >= 1 calls before it were
\* Insert(word, id).
RemovedAfterInserts(N) ==
    /\ trieLog # <<>>
    /\ trieLog[Len(trieLog)].op = "Remove"
    /\ N >= 1
    /\ InsertsBefore(Len(trieLog), Len(trieLog) - 1) = N

LastWord == trieLog[Len(trieLog)].word
LastId == trieLog[Len(trieLog)].id

\* C34 as stated: after N >= 1 calls Insert(word, id) and one Remove(word,
\* id), the id is in the id set of the word's node iff N > 1.
C34_RemoveLeavesIdIffInsertedTwice ==
    \A N \in 1..MaxTrieOps :
        RemovedAfterInserts(N) => ((LastId \in trie[LastWord].docs) <=> N > 1)

\* C34 amended: after N >= 1 calls Insert(word, id) and one Remove(word, id),
\* the id is not in the id set of the word's node, whatever N is.
C34_RemoveDropsId ==
    \A N \in 1..MaxTrieOps :
        RemovedAfterInserts(N) => LastId \notin trie[LastWord].docs

\* Two Inserts of a pair with a word of two characters, then its Remove: the
\* id is gone from the word's node and still in the node of the prefix.
C34_Witness ==
    /\ RemovedAfterInserts(2)
    /\ Len(LastWord) = 2
    /\ LastId \notin trie[LastWord].docs
    /\ LastId \in trie[SubSeq(LastWord, 1, 1)].docs

\* A CreateIndex holds db.mu and is registering or populating the index.
Installing(u) == pc[u] \in {"ci_range", "ci_index"}

\* C35: while a CreateIndex is registering and populating the index, no step
\* of another call changes the store or the index.
C35_IndexInstallExcludesWrites ==
    [][(\E u \in Threads : Installing(u) /\ pc'[u] = pc[u])
          => (data' = data /\ idx' = idx)]_vars

\* The whole records of the file and the bytes that follow the last of them.
WholeRecords == Len(fileBytes) \div RecordLen
TailLen == Len(fileBytes) % RecordLen
WholeRecordsFile ==
    [i \in 1..WholeRecords |-> fileBytes[(i - 1) * RecordLen + HeaderLen + 1].rec]

\* C36: loadData succeeds, with every whole record installed, when the file
\* ends at a record boundary or inside a length header, and returns an error
\* when the file ends inside a record body.
C36_LoadEndsCleanlyAtHeader ==
    loadRes.state # "none"
        => IF TailLen < HeaderLen
           THEN /\ loadRes.state = "ok"
                /\ loadRes.store =
                     loadData(WholeRecordsFile,
                              [store |-> EmptyView, count |-> 0]).store
           ELSE loadRes.state = "error"

\* C37: every entry of the store is keyed by the text of the primary-key
\* field of its own document.
C37_StoreKeyedByPrimaryKey ==
    \A id \in Ids : Stored(id) => Text(data[id].d[primaryKey]) = id

\* The positions of the records of an id in the data file.
DataRecordsOf(id) == {i \in 1..Len(dataFile) : dataFile[i].id = id}
LastDataRecord(id) ==
    dataFile[CHOOSE i \in DataRecordsOf(id) : \A j \in DataRecordsOf(id) : j <= i]

\* C38: once every call has returned and every data-file write has finished,
\* the last data record of a stored id carries the document the store holds
\* for it.
C38_DataFileOrderIsStoreOrder ==
    (Quiescent /\ writers = {})
        => \A id \in StoreIds :
              /\ DataRecordsOf(id) # {}
              /\ LastDataRecord(id).d = data[id].d

\* C39: with the index on name, FuzzyQuery returns for every pattern the
\* documents that the full scan of the store returns.
C39_FuzzyQueryTrieEqualsScan ==
    nameField \in textIndexes
        => \A pattern \in Patterns :
              FuzzyQuery(pattern) = fullScanFuzzyQuery(pattern)

\* C40: whatever the worker count, an Insert that has appended its WAL
\* record obtains its worker slot and returns.
C40_InsertGetsSlotAndReturns ==
    \A t \in Threads :
        (pc[t] = "ins_wg") ~> (pc[t] = "idle" /\ res[t] = "ok")

====
